---- MODULE Spec2Model ----
(***************************************************************************)
(* ReportGenerator (src/main.py): a workflow whose run(topic, use_cache)   *)
(* is a Python generator.  The caller creates the generator and pulls      *)
(* events from it; between two yields the body runs the topic cache check, *)
(* the search retry loop, the three blocking agent calls and the streamed  *)
(* report, whose completion writes the topic cache.                        *)
(*                                                                         *)
(* Texts the program concatenates (report chunks, the cached report, the   *)
(* "not found" message) are sequences of pieces; artifacts that are only   *)
(* passed on (search results, normalized data, comparison, SWOT) are       *)
(* atomic strings.  The agents are external: each call returns one of a    *)
(* small set of texts or raises.                                           *)
(***************************************************************************)
EXTENDS Naturals, Sequences, FiniteSets

VARIABLES cache,        \* session_state["topic"]: topic -> cached report
          run_response, \* report_agent.run_response.content
          cur,          \* the generator whose body is executing, or NoGen
          gen,          \* per generator: position, locals and run history (entry: the
                        \* topic's cache entry when run was called; outcomes: the searcher
                        \* outcomes of the Search stage, kept until Normalize starts;
                        \* found: run_response as it was when the stream was last resumed)
          prev,         \* <<summary>> of the run that ended in Done right before the newest run
          nruns         \* number of run(...) calls made so far

vars == <<cache, run_response, cur, gen, prev, nruns>>

(* ------------------------------ bounds -------------------------------- *)
MaxRuns == 2      \* run(...) calls per behaviour
MaxChunks == 2    \* chunks one streamed report may hold

(* ----------------------------- constants ------------------------------ *)
MAX_ATTEMPTS == 3

Gens == {"g1", "g2"}
NoGen == "nogen"
Topics == {"Dell", "Acme Corp"}
None == "None"
SearchTexts == {"s1", "s2"}
NlpTexts == {"n1"}
ComparisonTexts == {"c1"}
SwotTexts == {"w1"}
ChunkTexts == {<<"a">>, <<"b">>}
SearcherOutcomes == {"raise", "empty"} \cup SearchTexts

Terminal == {"CacheHit", "NotFound", "Done", "Error", "Abandoned"}
Suspended == {"created", "y_hit", "y_notfound", "y_chunk"}

(* ------------------------- events and payloads ------------------------ *)
RunResponse(content, event) == [event |-> event, content |-> content]

NotFoundMessage(topic) == <<"Sorry, could not find any articles on the topic: ", topic>>

\* agent.run(text): the prompt is the text itself
PlainInput(text) == [type |-> "text", string |-> text, object |-> <<>>]

\* json.dumps of a str
JsonDumpsStr(s) == [type |-> "json", string |-> s, object |-> <<>>]

\* json.dumps of a dict, its items in insertion order
JsonDumpsDict(items) == [type |-> "json", string |-> "", object |-> items]

AgentCall(agent, input) == [agent |-> agent, input |-> input]

(* ------------------------------ the cache ----------------------------- *)
\* dict.get: <<value>> when the key is present, <<>> (Python None) otherwise
get_cached_topic(topic) ==
    IF topic \in DOMAIN cache THEN <<cache[topic]>> ELSE <<>>

\* Python truthiness of an Optional[str]: None and "" are false
Truthy(opt) == opt /= <<>> /\ opt[1] /= <<>>

\* the mapping replaced instead of updated: every other topic is evicted
add_topic_to_cacheReplacing(c, topic, topic_data) ==
    [k \in {topic} |-> topic_data]

add_topic_to_cache(c, topic, topic_data) ==
    [k \in (DOMAIN c) \cup {topic} |-> IF k = topic THEN topic_data ELSE c[k]]

(* --------------------------- generator state -------------------------- *)
Fresh ==
    [pc |-> "none", topic |-> None, use_cache |-> FALSE, attempt |-> 0,
     search_results |-> None, preprocessed |-> None, comparison |-> None,
     swot |-> None, acc |-> <<>>, out |-> <<>>, calls |-> <<>>,
     outcomes |-> <<>>, entry |-> <<>>, found |-> <<>>,
     warnings |-> 0, errors |-> 0, writes |-> 0]

NewRun(topic, use_cache) ==
    [Fresh EXCEPT !.pc = "created", !.topic = topic, !.use_cache = use_cache,
                  !.entry = get_cached_topic(topic)]

Inactive(g) == gen[g].pc \in Terminal \cup {"none"}

Sequential == \A h \in Gens : Inactive(h)

DoneRuns == {h \in Gens : gen[h].pc = "Done"}

Init ==
    /\ cache = <<>>
    /\ run_response = <<>>
    /\ cur = NoGen
    /\ gen = [g \in Gens |-> Fresh]
    /\ prev = <<>>
    /\ nruns = 0

(* ------------------------------ the caller ---------------------------- *)
\* report = generate_report.run(topic=..., use_cache=...): creates the generator;
\* no line of the body runs before the first pull.  Generators that have ended
\* are dropped.
Call(g, topic, use_cache) ==
    /\ cur = NoGen
    /\ nruns < MaxRuns
    /\ Inactive(g)
    /\ gen' = [h \in Gens |->
                 IF h = g THEN NewRun(topic, use_cache)
                 ELSE IF Inactive(h) THEN Fresh ELSE gen[h]]
    /\ prev' = IF DoneRuns = {} THEN <<>>
               ELSE LET h == CHOOSE h \in DoneRuns : TRUE
                    IN <<[topic |-> gen[h].topic, use_cache |-> gen[h].use_cache,
                          report |-> gen[h].acc]>>
    /\ nruns' = nruns + 1
    /\ UNCHANGED <<cache, run_response, cur>>

\* the cache write moved into a finally block: closing the generator runs it
AbandonFlushing(g) ==
    /\ cur = NoGen
    /\ gen[g].pc \in Suspended
    /\ IF gen[g].pc = "y_chunk"
       THEN /\ cache' = add_topic_to_cache(cache, gen[g].topic, run_response)
            /\ gen' = [gen EXCEPT ![g].pc = "Abandoned", ![g].writes = @ + 1]
       ELSE /\ cache' = cache
            /\ gen' = [gen EXCEPT ![g].pc = "Abandoned"]
    /\ UNCHANGED <<run_response, cur, prev, nruns>>

\* the caller stops pulling and drops a suspended generator
Abandon(g) ==
    /\ cur = NoGen
    /\ gen[g].pc \in Suspended
    /\ gen' = [gen EXCEPT ![g].pc = "Abandoned"]
    /\ UNCHANGED <<cache, run_response, cur, prev, nruns>>

(* ------------------------------- run ---------------------------------- *)
\* the use_cache flag ignored
CacheHitIgnoringFlag(use_cache, cached_topic) == Truthy(cached_topic)

\* lines 89-91
CacheHit(use_cache, cached_topic) == use_cache /\ Truthy(cached_topic)

\* first pull: lines 88-95 up to the cache-hit yield or the entry of get_search_results
Begin(g) ==
    /\ cur = NoGen
    /\ gen[g].pc = "created"
    /\ LET cached_topic == get_cached_topic(gen[g].topic) IN
         IF CacheHit(gen[g].use_cache, cached_topic)
         THEN /\ gen' = [gen EXCEPT ![g].pc = "y_hit",
                           ![g].out = Append(@, RunResponse(cached_topic[1], "workflow_completed"))]
              /\ cur' = NoGen
         ELSE /\ gen' = [gen EXCEPT ![g].pc = "search", ![g].attempt = 0]
              /\ cur' = g
    /\ UNCHANGED <<cache, run_response, prev, nruns>>

\* the pull after a workflow_completed event: the body returns
Return(g) ==
    /\ cur = NoGen
    /\ gen[g].pc \in {"y_hit", "y_notfound"}
    /\ gen' = [gen EXCEPT ![g].pc = IF gen[g].pc = "y_hit" THEN "CacheHit" ELSE "NotFound"]
    /\ UNCHANGED <<cache, run_response, cur, prev, nruns>>

\* SWOT and Compare swapped
StageAfterSwapped(stage) ==
    CASE stage = "search" -> "nlp"
      [] stage = "nlp" -> "swot"
      [] stage = "swot" -> "compare"
      [] stage = "compare" -> "report"

\* the order of the stages in run: lines 95, 103-106
StageAfter(stage) ==
    CASE stage = "search" -> "nlp"
      [] stage = "nlp" -> "compare"
      [] stage = "compare" -> "swot"
      [] stage = "swot" -> "report"

(* ------------------------ get_search_results -------------------------- *)
\* the empty-response check dropped
AttemptFailedOnRaiseOnly(o) == o = "raise"

\* line 130: a falsy response or falsy content; lines 136-137: any exception
AttemptFailed(o) == o \in {"raise", "empty"}

\* the warning of the empty branch dropped
LogsWarningOnRaiseOnly(o) == o = "raise"

\* lines 131 and 137
LogsWarning(o) == o \in {"raise", "empty"}

\* one attempt too many
ExhaustedLate(attempt) == attempt > MAX_ATTEMPTS

\* range(MAX_ATTEMPTS) is used up
Exhausted(attempt) == attempt >= MAX_ATTEMPTS

\* one iteration of the retry loop; the last failing one also runs the
\* exhaustion path of run (lines 139-140, 97-102)
SearchAttempt(g) ==
    /\ cur = g
    /\ gen[g].pc = "search"
    /\ \E o \in SearcherOutcomes :
         LET r == [gen[g] EXCEPT
                     !.calls = Append(@, AgentCall("searcher", PlainInput(gen[g].topic))),
                     !.outcomes = Append(@, o),
                     !.warnings = IF LogsWarning(o) THEN @ + 1 ELSE @]
         IN IF ~AttemptFailed(o)
            THEN /\ gen' = [gen EXCEPT ![g] = [r EXCEPT !.search_results = o, !.pc = StageAfter("search")]]
                 /\ cur' = g
            ELSE IF ~Exhausted(r.attempt + 1)
            THEN /\ gen' = [gen EXCEPT ![g] = [r EXCEPT !.attempt = @ + 1]]
                 /\ cur' = g
            ELSE /\ gen' = [gen EXCEPT ![g] =
                              [r EXCEPT !.attempt = @ + 1,
                                        !.errors = @ + 1,
                                        !.search_results = None,
                                        !.out = Append(@, RunResponse(NotFoundMessage(r.topic),
                                                                      "workflow_completed")),
                                        !.pc = "y_notfound"]]
                 /\ cur' = NoGen
    /\ UNCHANGED <<cache, run_response, prev, nruns>>

(* ------------------------- downstream stages -------------------------- *)
NlpInput(search_results) == JsonDumpsStr(search_results)

ComparisonInput(topic, search_results) ==
    JsonDumpsDict(<< <<"topic", topic>>, <<"search results", search_results>> >>)

\* the comparison left out of the SWOT payload
SwotInputNoComparison(topic, search_results, comparison) ==
    JsonDumpsDict(<< <<"topic", topic>>, <<"search results", search_results>> >>)

SwotInput(topic, search_results, comparison) ==
    JsonDumpsDict(<< <<"topic", topic>>, <<"search results", search_results>>,
                     <<"comparison", comparison>> >>)

ReportInput(topic, search_results, comparison, swot) ==
    JsonDumpsDict(<< <<"topic", topic>>, <<"search results", search_results>>,
                     <<"comparison", comparison>>, <<"SWOT_Analyis", swot>> >>)

Raise(g, r) ==
    /\ gen' = [gen EXCEPT ![g] = [r EXCEPT !.pc = "Error"]]
    /\ cur' = NoGen

nlp_preprocessing(g) ==
    /\ cur = g
    /\ gen[g].pc = "nlp"
    /\ LET r == [gen[g] EXCEPT
                   !.calls = Append(@, AgentCall("nlp_agent", NlpInput(gen[g].search_results))),
                   !.outcomes = <<>>]
       IN \/ Raise(g, r)
          \/ \E o \in NlpTexts :
               /\ gen' = [gen EXCEPT ![g] = [r EXCEPT !.preprocessed = o, !.pc = StageAfter("nlp")]]
               /\ cur' = g
    /\ UNCHANGED <<cache, run_response, prev, nruns>>

feature_comparison(g) ==
    /\ cur = g
    /\ gen[g].pc = "compare"
    /\ LET r == [gen[g] EXCEPT
                   !.calls = Append(@, AgentCall("comparison_agent",
                                ComparisonInput(gen[g].topic, gen[g].preprocessed)))]
       IN \/ Raise(g, r)
          \/ \E o \in ComparisonTexts :
               /\ gen' = [gen EXCEPT ![g] = [r EXCEPT !.comparison = o, !.pc = StageAfter("compare")]]
               /\ cur' = g
    /\ UNCHANGED <<cache, run_response, prev, nruns>>

swot_analysis(g) ==
    /\ cur = g
    /\ gen[g].pc = "swot"
    /\ LET r == [gen[g] EXCEPT
                   !.calls = Append(@, AgentCall("swot_agent",
                                SwotInput(gen[g].topic, gen[g].preprocessed, gen[g].comparison)))]
       IN \/ Raise(g, r)
          \/ \E o \in SwotTexts :
               /\ gen' = [gen EXCEPT ![g] = [r EXCEPT !.swot = o, !.pc = StageAfter("swot")]]
               /\ cur' = g
    /\ UNCHANGED <<cache, run_response, prev, nruns>>

(* --------------------------- generate_report -------------------------- *)
\* lines 159-160: build the payload and start iterating the agent's stream
generate_report(g) ==
    /\ cur = g
    /\ gen[g].pc = "report"
    /\ gen' = [gen EXCEPT
                 ![g].calls = Append(@, AgentCall("report_agent",
                                ReportInput(gen[g].topic, gen[g].preprocessed,
                                            gen[g].comparison, gen[g].swot))),
                 ![g].acc = <<>>,
                 ![g].pc = "stream"]
    /\ UNCHANGED <<cache, run_response, cur, prev, nruns>>

\* the stream yields one more chunk, which run passes on to the caller; while
\* streaming, the agent's run_response holds the chunk just produced
StreamChunk(g) ==
    /\ cur = g
    /\ gen[g].pc = "stream"
    /\ Len(gen[g].out) < MaxChunks
    /\ \E c \in ChunkTexts :
         /\ gen' = [gen EXCEPT ![g].acc = @ \o c,
                               ![g].out = Append(@, RunResponse(c, "run_response")),
                               ![g].pc = "y_chunk"]
         /\ run_response' = c
    /\ cur' = NoGen
    /\ UNCHANGED <<cache, prev, nruns>>

\* the cache write moved into a finally block: the error path runs it
StreamRaiseFlushing(g) ==
    /\ cur = g
    /\ gen[g].pc = "stream"
    /\ gen' = [gen EXCEPT ![g].pc = "Error", ![g].writes = @ + 1]
    /\ cur' = NoGen
    /\ cache' = add_topic_to_cache(cache, gen[g].topic, run_response)
    /\ UNCHANGED <<run_response, prev, nruns>>

\* the stream raises
StreamRaise(g) ==
    /\ cur = g
    /\ gen[g].pc = "stream"
    /\ Raise(g, gen[g])
    /\ UNCHANGED <<cache, run_response, prev, nruns>>

\* the agent's field read as the last yield left it, not as completed
CachedReportStale(g, response_content) == run_response

\* the last chunk stored instead of the completed response
CachedReportLastChunk(g, response_content) ==
    IF gen[g].out = <<>> THEN <<>> ELSE gen[g].out[Len(gen[g].out)].content

\* line 161: self.report_agent.run_response.content, read when the stream has ended
CachedReport(g, response_content) == response_content

\* the agent's side of the end of a stream (the agent library is not part of
\* this repository): before its generator finishes, the agent sets its
\* run_response to the whole text of the stream that is ending
CompletedResponse(g) == gen[g].acc

\* the stream ends, and in the same resumption line 161 stores the agent's
\* run_response under the topic
StreamEnd(g) ==
    /\ cur = g
    /\ gen[g].pc = "stream"
    /\ run_response' = CompletedResponse(g)
    /\ cache' = add_topic_to_cache(cache, gen[g].topic, CachedReport(g, run_response'))
    /\ gen' = [gen EXCEPT ![g].writes = @ + 1, ![g].pc = "Done"]
    /\ cur' = NoGen
    /\ UNCHANGED <<prev, nruns>>

\* the pull after a chunk: the stream is resumed
ResumeStream(g) ==
    /\ cur = NoGen
    /\ gen[g].pc = "y_chunk"
    /\ gen' = [gen EXCEPT ![g].pc = "stream", ![g].found = run_response]
    /\ cur' = g
    /\ UNCHANGED <<cache, run_response, prev, nruns>>

(* --------------------------- specifications --------------------------- *)
Step(g) ==
    \/ Begin(g)
    \/ Return(g)
    \/ SearchAttempt(g)
    \/ nlp_preprocessing(g)
    \/ feature_comparison(g)
    \/ swot_analysis(g)
    \/ generate_report(g)
    \/ StreamChunk(g)
    \/ StreamRaise(g)
    \/ StreamEnd(g)
    \/ ResumeStream(g)

\* one run at a time: a run is started only when no other is in progress;
\* which of the free generator objects serves it makes no difference
StartOn(topics) ==
    /\ Sequential
    /\ \E t \in topics, u \in BOOLEAN : Call(CHOOSE g \in Gens : Inactive(g), t, u)

Start == StartOn(Topics)

Next ==
    \/ Start
    \/ \E g \in Gens : Step(g)
    \/ \E g \in Gens : Abandon(g)

Spec == Init /\ [][Next]_vars

\* the runs of one session of the command line (lines 167-182): every run is
\* on the topic the session is named after
StartSession == StartOn({"Dell"})

NextSession ==
    \/ StartSession
    \/ \E g \in Gens : Step(g)
    \/ \E g \in Gens : Abandon(g)

\* a caller that consumes every output: each pull and each step of a started
\* run is eventually taken, every agent call returning or raising
FairSpec == Init /\ [][NextSession]_vars /\ \A g \in Gens : WF_vars(Step(g))

\* a caller holding two generators of one workflow, one per topic, called as in
\* line 182 (use_cache=True), and pulling from them in any order (one thread:
\* a body runs from a pull to its next yield)
TopicOf(g) == IF g = "g1" THEN "Dell" ELSE "Acme Corp"

StartInterleaved == \E g \in Gens : Call(g, TopicOf(g), TRUE)

\* the searcher answers "s1" at its first attempt
SearchAnswers == \A g \in Gens : gen[g].warnings = 0 /\ gen[g].search_results \in {None, "s1"}

SearchAnswered(g) == SearchAttempt(g) /\ SearchAnswers'

StepInterleaved(g) ==
    \/ Begin(g)
    \/ Return(g)
    \/ SearchAnswered(g)
    \/ nlp_preprocessing(g)
    \/ feature_comparison(g)
    \/ swot_analysis(g)
    \/ generate_report(g)
    \/ StreamChunk(g)
    \/ StreamRaise(g)
    \/ StreamEnd(g)
    \/ ResumeStream(g)

NextInterleaved ==
    \/ StartInterleaved
    \/ \E g \in Gens : StepInterleaved(g)
    \/ \E g \in Gens : Abandon(g)

SpecInterleaved == Init /\ [][NextInterleaved]_vars

(* ------------------------- history operators -------------------------- *)
Started(g) == gen[g].pc \notin {"none", "created", "Abandoned"} \/ gen[g].out /= <<>>

FailureOutcomes == {"raise", "empty"}

Agents(g) == [i \in 1..Len(gen[g].calls) |-> gen[g].calls[i].agent]

CallsTo(g, agent) == Cardinality({i \in 1..Len(gen[g].calls) : gen[g].calls[i].agent = agent})

InputOf(g, agent) ==
    gen[g].calls[CHOOSE i \in 1..Len(gen[g].calls) : gen[g].calls[i].agent = agent].input

IsPrefix(s, t) == Len(s) <= Len(t) /\ \A i \in 1..Len(s) : s[i] = t[i]

Downstream == <<"nlp_agent", "comparison_agent", "swot_agent", "report_agent">>

\* k searcher calls, then the four downstream agents in pipeline order
PipelineOrder(k) == [i \in 1..k |-> "searcher"] \o Downstream

RECURSIVE Concat(_)
Concat(events) ==
    IF events = <<>> THEN <<>> ELSE events[1].content \o Concat(Tail(events))

Completed(content) == RunResponse(content, "workflow_completed")

Contains(input, text) ==
    \/ input.string = text
    \/ \E i \in 1..Len(input.object) : input.object[i][2] = text

Values(input) == [i \in 1..Len(input.object) |-> input.object[i][2]]

(* ------------------------------- claims ------------------------------- *)

\* C1: a run with use_cache = true started while the cache holds an entry for
\* its topic emits exactly one event, workflow_completed with the cached value,
\* calls no agent and writes no cache entry.
C1_CacheEntryShortCircuits ==
    \A g \in Gens :
        (Started(g) /\ gen[g].use_cache /\ gen[g].entry /= <<>>)
        => /\ gen[g].out = <<Completed(gen[g].entry[1])>>
           /\ gen[g].calls = <<>>
           /\ gen[g].writes = 0

\* C2: the agent calls of a run are a prefix of searcher (1 to 3 times), nlp,
\* comparison, swot, report; a downstream stage is called only after Search
\* returned content, and each stage only after its predecessor returned.
C2_StageOrder ==
    \A g \in Gens :
        /\ gen[g].calls = <<>>
           \/ \E k \in 1..MAX_ATTEMPTS :
                /\ IsPrefix(Agents(g), PipelineOrder(k))
                /\ Len(Agents(g)) > k => gen[g].search_results \in SearchTexts
        /\ gen[g].pc \in {"y_hit", "CacheHit"} => gen[g].calls = <<>>
        /\ CallsTo(g, "comparison_agent") > 0 => gen[g].preprocessed \in NlpTexts
        /\ CallsTo(g, "swot_agent") > 0 => gen[g].comparison \in ComparisonTexts
        /\ CallsTo(g, "report_agent") > 0 => gen[g].swot \in SwotTexts

C2_Witness ==
    \E g \in Gens : gen[g].pc = "Done" /\ Agents(g) = PipelineOrder(2)

\* C3: get_search_results returns the content of the first attempt, among at
\* most 3, that yields content, makes no attempt after it, and has logged one
\* warning per failed attempt before it.
C3_FirstContentReturned ==
    \A g \in Gens :
        /\ gen[g].pc = "nlp" =>
             LET k == Len(gen[g].outcomes) IN
               /\ k \in 1..MAX_ATTEMPTS
               /\ gen[g].outcomes[k] \in SearchTexts
               /\ gen[g].search_results = gen[g].outcomes[k]
               /\ \A i \in 1..(k - 1) : gen[g].outcomes[i] \in FailureOutcomes
               /\ gen[g].warnings = k - 1
               /\ CallsTo(g, "searcher") = k
        /\ gen[g].search_results /= None =>
             /\ CallsTo(g, "searcher") = gen[g].warnings + 1
             /\ gen[g].errors = 0

C3_Witness ==
    \E g \in Gens :
        /\ gen[g].pc = "nlp"
        /\ gen[g].outcomes = <<"raise", "empty", "s2">>
        /\ gen[g].search_results = "s2"
        /\ gen[g].warnings = 2

\* C4: when all 3 attempts fail, get_search_results returns None without
\* raising and the run emits exactly the "could not find" completion event,
\* calls no downstream agent and writes no cache entry.
C4_AllAttemptsFail ==
    \A g \in Gens :
        (/\ Len(gen[g].outcomes) = MAX_ATTEMPTS
         /\ \A i \in 1..MAX_ATTEMPTS : gen[g].outcomes[i] \in FailureOutcomes)
        => /\ gen[g].pc \in {"y_notfound", "NotFound", "Abandoned"}
           /\ gen[g].search_results = None
           /\ gen[g].errors = 1
           /\ gen[g].out = <<Completed(NotFoundMessage(gen[g].topic))>>
           /\ Agents(g) = [i \in 1..MAX_ATTEMPTS |-> "searcher"]
           /\ gen[g].writes = 0
           /\ get_cached_topic(gen[g].topic) = gen[g].entry

C4_Witness ==
    \E g \in Gens :
        /\ gen[g].pc = "NotFound"
        /\ gen[g].outcomes = <<"raise", "empty", "raise">>

\* C5: a run writes the cache at most once, and only when all five agents have
\* been called and the whole report stream has been passed to the caller; an
\* abandoned run writes nothing.
C5_WriteOnlyAfterDrain ==
    \A g \in Gens :
        /\ gen[g].writes <= 1
        /\ gen[g].writes = 1 =>
             /\ gen[g].pc = "Done"
             /\ \E k \in 1..MAX_ATTEMPTS : Agents(g) = PipelineOrder(k)
             /\ Concat(gen[g].out) = gen[g].acc
        /\ gen[g].pc = "Abandoned" => gen[g].writes = 0
        /\ (gen[g].pc /= "none" /\ gen[g].writes = 0) => get_cached_topic(gen[g].topic) = gen[g].entry

C5_Witness ==
    \E g \in Gens : gen[g].pc = "Done" /\ gen[g].writes = 1 /\ Len(gen[g].out) = 2

\* C6: after a run with use_cache = true that ended in Done, the next run on
\* the same topic with use_cache = true emits the report of that run as its
\* only event and calls no agent, whatever the report text was.
C6_SecondRunServedFromCache ==
    \A g \in Gens :
        (/\ Started(g)
         /\ gen[g].use_cache
         /\ prev /= <<>>
         /\ prev[1].use_cache
         /\ prev[1].topic = gen[g].topic)
        => /\ gen[g].out = <<Completed(prev[1].report)>>
           /\ gen[g].calls = <<>>

\* C7 as stated: a run ended by an agent error has written no cache entry and
\* has delivered no event.
C7_NoOutputOnError ==
    \A g \in Gens :
        gen[g].pc = "Error" => gen[g].writes = 0 /\ gen[g].out = <<>>

\* C7 amended: a run ended by an agent error has written no cache entry and has
\* delivered no completion event; what it delivered are the chunks the report
\* stream produced before failing, none if the report agent was never called.
C7_OnlyStreamedChunksOnError ==
    \A g \in Gens :
        gen[g].pc = "Error" =>
            /\ gen[g].writes = 0
            /\ get_cached_topic(gen[g].topic) = gen[g].entry
            /\ \A i \in 1..Len(gen[g].out) : gen[g].out[i].event = "run_response"
            /\ Concat(gen[g].out) = gen[g].acc
            /\ CallsTo(g, "report_agent") = 0 => gen[g].out = <<>>

C7_Witness ==
    \E g \in Gens :
        gen[g].pc = "Error" /\ CallsTo(g, "report_agent") = 1 /\ Len(gen[g].out) >= 1

\* C8: after a run that ended in Done on a topic whose cache entry was empty,
\* the cache entry of the topic is the concatenation, in order, of the chunks
\* the run emitted.
C8_CacheHoldsConcatenation ==
    \A g \in Gens :
        (gen[g].pc = "Done" /\ ~Truthy(gen[g].entry))
        => /\ gen[g].topic \in DOMAIN cache
           /\ cache[gen[g].topic] = Concat(gen[g].out)

C8_Witness ==
    \E g \in Gens :
        /\ gen[g].pc = "Done"
        /\ gen[g].entry = <<>>
        /\ gen[g].out = <<RunResponse(<<"b">>, "run_response"), RunResponse(<<"a">>, "run_response")>>
        /\ cache[gen[g].topic] = <<"b", "a">>

C10_TerminatesWithinBudget ==
    /\ [](\A g \in Gens :
            /\ CallsTo(g, "searcher") <= MAX_ATTEMPTS
            /\ \A i \in 1..Len(Downstream) : CallsTo(g, Downstream[i]) <= 1)
    /\ \A g \in Gens : (gen[g].pc = "created") ~> (gen[g].pc \in Terminal)

C10_Witness ==
    \E g \in Gens :
        /\ gen[g].pc = "Done"
        /\ CallsTo(g, "searcher") = MAX_ATTEMPTS
        /\ \A i \in 1..Len(Downstream) : CallsTo(g, Downstream[i]) = 1

\* C11: no step removes a cache entry; a step that changes the cache is the
\* end of the report stream of one run, which reaches Done and changes the
\* entry of its own topic only; runs that end (or wait) in CacheHit, NotFound
\* or Error have written nothing.
C11_CacheFrame ==
    /\ [][/\ DOMAIN cache \subseteq DOMAIN cache'
          /\ cache' /= cache =>
                \E g \in Gens :
                    /\ gen[g].pc = "stream"
                    /\ gen'[g].pc = "Done"
                    /\ gen'[g].writes = gen[g].writes + 1
                    /\ DOMAIN cache' = DOMAIN cache \cup {gen[g].topic}
                    /\ \A t \in DOMAIN cache \ {gen[g].topic} : cache'[t] = cache[t]]_vars
    /\ [](\A g \in Gens :
            gen[g].pc \in {"y_hit", "CacheHit", "y_notfound", "NotFound", "Error"}
            => /\ gen[g].writes = 0
               /\ get_cached_topic(gen[g].topic) = gen[g].entry)

C11_Witness ==
    /\ DOMAIN cache = Topics
    /\ \E g \in Gens :
          /\ gen[g].pc = "Done"
          /\ gen[g].entry = <<>>
          /\ \E t \in Topics \ {gen[g].topic} : cache[t] = <<"a", "b">>

\* C12: a run with use_cache = false started while its topic has a cache entry
\* never emits the cached value as a cache hit: its first agent call is the
\* searcher, its only possible completion event is the not-found message, and
\* when it ends in Done the entry of the topic is the report it streamed.
C12_CacheBypassed ==
    \A g \in Gens :
        (gen[g].pc /= "none" /\ ~gen[g].use_cache /\ gen[g].entry /= <<>>)
        => /\ gen[g].pc \notin {"y_hit", "CacheHit"}
           /\ gen[g].pc \in {"created", "Abandoned"} \/ gen[g].pc = "search"
              \/ (gen[g].calls /= <<>> /\ gen[g].calls[1].agent = "searcher")
           /\ \A i \in 1..Len(gen[g].out) :
                 gen[g].out[i].event = "workflow_completed"
                 => gen[g].out[i].content = NotFoundMessage(gen[g].topic)
           /\ gen[g].pc = "Done" =>
                 /\ gen[g].writes = 1
                 /\ cache[gen[g].topic] = Concat(gen[g].out)

C12_Witness ==
    \E g \in Gens :
        /\ gen[g].pc = "Done"
        /\ ~gen[g].use_cache
        /\ gen[g].entry = << <<"a">> >>
        /\ cache[gen[g].topic] = <<"b", "a">>

====
